---- MODULE Spec2Model ----
(***************************************************************************)
(* Model of telegram_document_bot.py: the conversation state machine that  *)
(* collects the loan fields (start, choose_doc, ask_name, ask_amount,      *)
(* ask_duration, ask_tan, ask_taeg, cancel, dispatched by the              *)
(* ConversationHandler built in main), the calculator monthly_payment, the *)
(* formatters, and the three PDF builders seen as the element list they    *)
(* hand to SimpleDocTemplate.build together with the page callbacks.       *)
(*                                                                         *)
(* Units.  Money is held in cents and a rate in hundredths of a percent,   *)
(* so the floats 0.25 and 7.86 of the source are the integers 25 and 786.  *)
(* The input texts of the model carry at most two fractional digits, so    *)
(* float() and round(x, 2) are exact on them.                              *)
(***************************************************************************)
EXTENDS Integers, Sequences, FiniteSets, TLC

\* ---------------------------------------------------------------- settings
DEFAULT_TAN == 786
DEFAULT_TAEG == 830
CARTA_COST == 12000
LOGO_PATH == "logo_intesa.png"
SIGNATURE_PATH == "image2.png"
CONTRACT_LOGO_PATH == "image1.jpg"

\* ------------------------------------------------------ conversation states
CHOOSING_DOC == 0
ASK_NAME == 1
ASK_AMOUNT == 2
ASK_DURATION == 3
ASK_TAN == 4
ASK_TAEG == 5

\* ------------------------------------------------------------------ bounds
\* Largest number of pages the layout of a document takes.  The number of
\* pages is decided by ReportLab from the length of the text (the client name
\* is free text of any length); a build of the model takes any number of
\* pages up to this bound.
MaxPages == 2

\* ------------------------------------------------------------ text helpers
Char(s, i) == SubSeq(s, i, i)

IsSpace(c) == c = " "

IsDigit(c) == c \in {"0", "1", "2", "3", "4", "5", "6", "7", "8", "9"}

DigitVal(c) ==
    CASE c = "0" -> 0 [] c = "1" -> 1 [] c = "2" -> 2 [] c = "3" -> 3
      [] c = "4" -> 4 [] c = "5" -> 5 [] c = "6" -> 6 [] c = "7" -> 7
      [] c = "8" -> 8 [] c = "9" -> 9

RECURSIVE LStrip(_)
LStrip(s) ==
    IF Len(s) > 0 /\ IsSpace(Char(s, 1)) THEN LStrip(SubSeq(s, 2, Len(s))) ELSE s

RECURSIVE RStrip(_)
RStrip(s) ==
    IF Len(s) > 0 /\ IsSpace(Char(s, Len(s)))
    THEN RStrip(SubSeq(s, 1, Len(s) - 1)) ELSE s

\* str.strip()
Strip(s) == RStrip(LStrip(s))

\* str.replace(old, new) for a one-character old
RECURSIVE Replace(_, _, _)
Replace(s, old, new) ==
    IF Len(s) = 0 THEN ""
    ELSE (IF Char(s, 1) = old THEN new ELSE Char(s, 1))
         \o Replace(SubSeq(s, 2, Len(s)), old, new)

AllDigits(s) == \A i \in 1..Len(s) : IsDigit(Char(s, i))

RECURSIVE DigitsValue(_)
DigitsValue(s) ==
    IF Len(s) = 0 THEN 0
    ELSE 10 * DigitsValue(SubSeq(s, 1, Len(s) - 1)) + DigitVal(Char(s, Len(s)))

\* Position of the first "." of s, or 0.
RECURSIVE DotAt(_, _)
DotAt(s, i) ==
    IF i > Len(s) THEN 0 ELSE IF Char(s, i) = "." THEN i ELSE DotAt(s, i + 1)

\* int(text): surrounding whitespace, an optional sign, then digits only.
\* ok = FALSE is the ValueError.
ParseInt(text) ==
    LET t == Strip(text)
        signed == Len(t) > 0 /\ Char(t, 1) \in {"+", "-"}
        body == IF signed THEN SubSeq(t, 2, Len(t)) ELSE t
        neg == signed /\ Char(t, 1) = "-"
    IN IF Len(body) > 0 /\ AllDigits(body)
       THEN [ok |-> TRUE, val |-> IF neg THEN 0 - DigitsValue(body) ELSE DigitsValue(body)]
       ELSE [ok |-> FALSE, val |-> 0]

\* float(text) on decimal literals: surrounding whitespace, an optional sign,
\* digits with at most one "." and at least one digit.  val is the value in
\* hundredths (two fractional digits are read); ok = FALSE is the ValueError.
ParseFloat(text) ==
    LET t == Strip(text)
        signed == Len(t) > 0 /\ Char(t, 1) \in {"+", "-"}
        body == IF signed THEN SubSeq(t, 2, Len(t)) ELSE t
        neg == signed /\ Char(t, 1) = "-"
        dot == DotAt(body, 1)
        ip == IF dot = 0 THEN body ELSE SubSeq(body, 1, dot - 1)
        fp == IF dot = 0 THEN "" ELSE SubSeq(body, dot + 1, Len(body))
        fp2 == SubSeq(fp \o "00", 1, 2)
        mag == 100 * DigitsValue(ip) + DigitsValue(fp2)
    IN IF AllDigits(ip) /\ AllDigits(fp) /\ Len(ip) + Len(fp) > 0
       THEN [ok |-> TRUE, val |-> IF neg THEN 0 - mag ELSE mag]
       ELSE [ok |-> FALSE, val |-> 0]

\* --------------------------------------------------------------- arithmetic
Abs(n) == IF n < 0 THEN 0 - n ELSE n

Sign(n) == IF n < 0 THEN 0 - 1 ELSE 1

RECURSIVE Gcd(_, _)
Gcd(a, b) == IF b = 0 THEN a ELSE Gcd(b, a % b)

RECURSIVE Pow(_, _)
Pow(b, e) == IF e = 0 THEN 1 ELSE b * Pow(b, e - 1)

\* <<quotient, remainder>> of (a * n) by d for a >= 0, n >= 0, d > 0, by
\* doubling, so that no intermediate product leaves the 32-bit integers.
RECURSIVE MulDivMod(_, _, _)
MulDivMod(a, n, d) ==
    IF a = 0 THEN <<0, 0>>
    ELSE LET h == MulDivMod(a \div 2, n, d)
             t == 2 * h[2] + (a % 2) * (n % d)
         IN <<2 * h[1] + (a % 2) * (n \div d) + (t \div d), t % d>>

\* round(): the integer nearest to (a * n) / d for a, n >= 0 and d > 0; an
\* exact tie goes to the even neighbour, as Python's round does.
RoundQuot(a, n, d) ==
    LET qr == MulDivMod(a, n, d)
    IN IF 2 * qr[2] > d \/ (2 * qr[2] = d /\ qr[1] % 2 = 1)
       THEN qr[1] + 1 ELSE qr[1]

\* The same quotient rounded half-up (ROUND_HALF_UP of the decimal module).
RoundQuotHalfUp(a, n, d) ==
    LET qr == MulDivMod(a, n, d)
    IN IF 2 * qr[2] >= d THEN qr[1] + 1 ELSE qr[1]

\* ---------------------------------------------------------------- utilities
\* monthly_payment(amount, months, annual_rate): amount in cents, annual_rate
\* in hundredths of a percent, the result in cents.  ok = FALSE is the
\* ZeroDivisionError the divisions raise.
\*   r = (annual_rate / 100) / 12 = p / q in lowest terms, 1 + r = P / q
\*   r == 0:  round(amount / months, 2)
\*   else:    round(amount * r * (1 + r)^months / ((1 + r)^months - 1), 2)
\*            = amount * P^n / (q * (P^n - q^n) / p)            for n > 0
\*            = - amount * q^m / (q * (P^m - q^m) / p)          for n = -m < 0
monthly_payment(amount, months, annual_rate) ==
    LET g == Gcd(Abs(annual_rate), 120000)
        p == annual_rate \div g
        q == 120000 \div g
        P == q + p
        m == Abs(months)
        geo == Abs(Pow(P, m) - Pow(q, m)) \div Abs(p)
        den == q * geo
        num == IF months > 0 THEN Pow(P, m) ELSE Pow(q, m)
        sgnr == Sign(amount) * Sign(months)
    IN IF annual_rate = 0
       THEN IF months = 0 THEN [ok |-> FALSE, val |-> 0]
            ELSE [ok |-> TRUE, val |-> sgnr * RoundQuot(Abs(amount), 1, m)]
       ELSE IF months = 0 THEN [ok |-> FALSE, val |-> 0]
            ELSE [ok |-> TRUE, val |-> sgnr * RoundQuot(Abs(amount), num, den)]

\* f"{val:.2f}" with sep as the decimal separator, val in hundredths
Fixed2(val, sep) ==
    LET a == Abs(val)
        c == a % 100
    IN (IF val < 0 THEN "-" ELSE "") \o ToString(a \div 100) \o sep
       \o (IF c < 10 THEN "0" ELSE "") \o ToString(c)

\* money(val): "€ " and the value quantized to 0.01
money(val) == "€ " \o Fixed2(val, ".")

\* str.rstrip(ch)
RECURSIVE RStripChar(_, _)
RStripChar(s, ch) ==
    IF Len(s) > 0 /\ Char(s, Len(s)) = ch
    THEN RStripChar(SubSeq(s, 1, Len(s) - 1), ch) ELSE s

\* fmt_num(val) of build_contratto: a float is printed with two decimals and
\* a comma, trailing zeros and a trailing comma stripped; an int goes to str.
fmt_num(val, isfloat) ==
    IF isfloat THEN RStripChar(RStripChar(Fixed2(val, ","), "0"), ",")
    ELSE ToString(val)

\* ------------------------------------------------------------ PDF builders
\* The flowables of reportlab.platypus a builder appends to elems.
Paragraph(text, style) == [type |-> "Paragraph", text |-> text, extra |-> style]

Spacer(height) == [type |-> "Spacer", text |-> "", extra |-> height]

Image(path, size) == [type |-> "Image", text |-> path, extra |-> size]

ListFlowable(items, bullet) == [type |-> "ListFlowable", text |-> items, extra |-> bullet]

\* SignatureLine of build_contratto; draw() overlays the signature image
\* only if sign_path is given and the file exists.
SignatureLine(label, sign_path, files) ==
    [type |-> "SignatureLine", text |-> label,
     extra |-> IF sign_path # "" /\ sign_path \in files THEN sign_path ELSE ""]

\* draw_logo of build_contratto: what the page callback draws on a page
draw_logo(files) == IF CONTRACT_LOGO_PATH \in files THEN {"logo"} ELSE {}

\* _border: what the page callback draws on a page
Border == {"border"}

\* SimpleDocTemplate.build(elems, onFirstPage, onLaterPages): the drawings of
\* the page callbacks on each of the npages pages the layout produces.
PageDrawings(onFirstPage, onLaterPages, npages) ==
    [i \in 1..npages |-> IF i = 1 THEN onFirstPage ELSE onLaterPages]

\* build_contratto(data): elems and the page callbacks given to doc.build
build_contratto(data, files, npages) ==
    [elems |->
        << Spacer("12"),
           Paragraph("UniCredito Italiano S.p.A.", "Header"),
           Spacer("10"),
           Paragraph("Sede legale: ...", "Body"),
           Spacer("20"),
           Paragraph("Cliente: " \o data["name"], "Client"),
           Paragraph("La ringraziamo ...", "Body"),
           Spacer("22"),
           Paragraph("Parametri principali del prestito:", "ParamHeader"),
           Paragraph("- Importo richiesto: " \o fmt_num(data["amount"], TRUE), "ParamList"),
           Paragraph("- Tasso Annuo Nominale (TAN) fisso: "
                     \o fmt_num(data["tan"], TRUE) \o "%", "ParamList"),
           Paragraph("- Tasso Annuo Effettivo Globale (TAEG): "
                     \o fmt_num(data["taeg"], TRUE) \o "%", "ParamList"),
           Paragraph("- Durata: " \o fmt_num(data["duration"], FALSE), "ParamList"),
           Paragraph("- Rata mensile: " \o fmt_num(data["payment"], TRUE), "ParamList"),
           Paragraph("- Commissione di incasso rata: 0 €", "ParamList"),
           Paragraph("- Premio assicurativo obbligatorio: € 150,00", "ParamList"),
           Spacer("22"),
           Paragraph("Agevolazioni e condizioni speciali:", "AgevHeader"),
           Paragraph("1. Pausa pagamenti ...", "AgevList"),
           Paragraph("2. Estinzione anticipata ...", "AgevList"),
           Paragraph("3. Riduzione del TAN ...", "AgevList"),
           Paragraph("4. CashBack ...", "AgevList"),
           Paragraph("5. Financial Navigator ...", "AgevList"),
           Paragraph("6. Bonifici SEPA gratuiti ...", "AgevList"),
           Spacer("22"),
           Paragraph("Penali e interessi di mora:", "PenHeader"),
           Paragraph("- Ritardo > 5 giorni ...", "PenList"),
           Paragraph("- Spese di sollecito ...", "PenList"),
           Paragraph("- Mancato pagamento di 2 rate ...", "PenList"),
           Paragraph("- Revoca polizza ...", "PenList"),
           Spacer("22"),
           Paragraph("La invitiamo a verificare ...", "Body"),
           Spacer("22"),
           Spacer("12"),
           Spacer("12"),
           Paragraph("Cordiali saluti, UniCredit Bank", "Farewell"),
           Spacer("18"),
           Paragraph("Comunicazioni tramite 1of1fin S.r.l. ...", "Contacts"),
           Spacer("22"),
           Paragraph("Luogo e data: Milano, <today>", "LuogoData"),
           Spacer("36"),
           SignatureLine("Firma del rappresentante UniCredit  ", SIGNATURE_PATH, files),
           Spacer("24"),
           SignatureLine("Firma del Cliente: ", "", files),
           Spacer("32") >>,
     pages |-> PageDrawings(draw_logo(files), draw_logo(files), npages)]

\* _letter_common(subject, body)
_letter_common(subject, body, files, npages) ==
    [elems |->
        (IF LOGO_PATH \in files
         THEN << Image(LOGO_PATH, "4x4cm"), Spacer("8") >> ELSE << >>)
        \o << Paragraph("Ufficio Crediti Clientela Privata", "Header"),
              Spacer("10"),
              Paragraph("Oggetto: " \o subject, "Body"),
              Spacer("14"),
              Paragraph(body, "Body"),
              Spacer("24") >>
        \o (IF SIGNATURE_PATH \in files
            THEN << Image(SIGNATURE_PATH, "4x2cm"), Spacer("4"),
                    Paragraph("Responsabile Ufficio Crediti Clientela Privata", "Body") >>
            ELSE << >>),
     pages |-> PageDrawings(Border, {}, npages)]

\* build_lettera_garanzia(name)
build_lettera_garanzia(name, files, npages) ==
    [elems |->
        (IF LOGO_PATH \in files
         THEN << Image(LOGO_PATH, "3.5x3.5cm"), Spacer("8") >> ELSE << >>)
        \o << Paragraph("UniCredit Bank", "Header"),
              Paragraph("Ufficio Clientela Privata", "SubHeader"),
              Spacer("8"),
              Paragraph("Oggetto: Pagamento del Contributo di Garanzia", "Body"),
              Spacer("10"),
              Paragraph("Egregio Cliente, " \o name, "Body"),
              Spacer("8"),
              Paragraph("Durante l'analisi della Sua richiesta ...", "Body"),
              Spacer("2"),
              Paragraph("In conformita con la normativa vigente ...", "Body"),
              Spacer("8"),
              Paragraph("Finalita del contributo:", "Body"),
              ListFlowable("Garantire ...; Assicurare ...; Protezione ...", "bullet"),
              Spacer("8"),
              Paragraph("Condizione obbligatoria:", "Body"),
              Paragraph("Tutte le operazioni finanziarie ...", "Body"),
              Spacer("8"),
              Paragraph("Vantaggi di UniCredit:", "Body"),
              ListFlowable("Conformita ...; Condizioni trasparenti; Tutela ...", "check"),
              Spacer("8"),
              Paragraph("Per ulteriori chiarimenti ...", "Body"),
              Spacer("10"),
              Paragraph("Cordiali saluti,", "Body"),
              Paragraph("UniCredit Banca", "Body"),
              Spacer("10"),
              Paragraph("P.S. La informiamo ...", "PS"),
              Spacer("16") >>
        \o (IF SIGNATURE_PATH \in files
            THEN << Image(SIGNATURE_PATH, "4x2cm"), Spacer("2") >> ELSE << >>)
        \o << Paragraph("Responsabile Ufficio Crediti Clientela Privata", "Body") >>,
     pages |-> PageDrawings({}, {}, npages)]

\* build_lettera_carta(data)
build_lettera_carta(data, files, npages) ==
    _letter_common(
        "Apertura Conto Credito e Emissione Carta",
        "Vantaggio Importante per il Cliente " \o data["name"]
          \o " ... approvato con successo per un importo di " \o money(data["amount"])
          \o ", con una durata di " \o ToString(data["duration"])
          \o " mesi al tasso annuo nominale (TAN) del " \o Fixed2(data["tan"], ".") \o "%."
          \o " Il Suo pagamento mensile sara pari a " \o money(data["payment"]) \o "."
          \o " ... carta di credito associata ammonta a " \o money(CARTA_COST) \o "."
          \o " Perche e richiesto il versamento di " \o money(CARTA_COST) \o "? ...",
        files, npages)

\* ------------------------------------------------------------------- state
VARIABLES
    conversations,  \* ConversationHandler: conversation key -> state
    user_data,      \* context.user_data: field name -> value
    replies,        \* what the handling of the last update sent to the chat
    builds,         \* the builder calls made while handling the last update
    update,         \* the last update: text, state on arrival, handler, exception
    fresh           \* history: fields written since CHOOSING_DOC was last entered

vars == <<conversations, user_data, replies, builds, update, fresh>>

\* The texts a user sends, in any state.
Texts ==
    { "/start", "/cancel", "/contratto", "/garanzia", "/carta",
      " Mario Rossi ", " ", "€5000,25", "2", "0", "-0,5" }

\* The optional asset files a builder looks for with os.path.exists.
AssetPaths(builder) ==
    IF builder = "build_contratto" THEN {SIGNATURE_PATH, CONTRACT_LOGO_PATH}
    ELSE {LOGO_PATH, SIGNATURE_PATH}

\* The one chat of the model: the key of its conversation.
Chat == "chat"

HasConversation == Chat \in DOMAIN conversations

State == conversations[Chat]

EmptyDict == [k \in {} |-> ""]

\* d[k] = v
Put(d, k, v) == [x \in DOMAIN d \cup {k} |-> IF x = k THEN v ELSE d[x]]

\* reply_text(text) and reply_document(InputFile(buf, filename))
TextMsg(text) == [kind |-> "text", text |-> text, doc |-> << >>]

DocumentMsg(filename, doc) == [kind |-> "document", text |-> filename, doc |-> doc]

WelcomeMsg == TextMsg("Benvenuto! Scegli documento:")

\* The two error replies (Russian in the source: an error while building,
\* resp. sending, the PDF; tell the administrator).
BuildErrorMsg == TextMsg("Oshibka pri formirovanii PDF. Soobshchite administratoru.")

SendErrorMsg == TextMsg("Oshibka pri otpravke PDF. Soobshchite administratoru.")

NoDoc == [elems |-> << >>, pages |-> << >>]

\* ---------------------------------------------------------------- dispatch
\* CommandHandler(name, ...)
IsCommand(text, name) == text = "/" \o name

\* filters.Regex('^(\/contratto|\/garanzia|\/carta)$')
IsDocToken(text) == text \in {"/contratto", "/garanzia", "/carta"}

\* filters.TEXT & ~filters.COMMAND
IsPlainText(text) == Len(text) > 0 /\ Char(text, 1) # "/"

\* The handler the ConversationHandler of main picks for a text: the entry
\* point without a conversation, else the handler of the current state, else
\* the fallbacks; "" when none matches and the update is dropped.
HandlerFor(text) ==
    IF ~HasConversation
    THEN IF IsCommand(text, "start") THEN "start" ELSE ""
    ELSE IF State = CHOOSING_DOC /\ IsDocToken(text) THEN "choose_doc"
    ELSE IF State = ASK_NAME /\ IsPlainText(text) THEN "ask_name"
    ELSE IF State = ASK_AMOUNT /\ IsPlainText(text) THEN "ask_amount"
    ELSE IF State = ASK_DURATION /\ IsPlainText(text) THEN "ask_duration"
    ELSE IF State = ASK_TAN /\ IsPlainText(text) THEN "ask_tan"
    ELSE IF State = ASK_TAEG /\ IsPlainText(text) THEN "ask_taeg"
    ELSE IF IsCommand(text, "cancel") THEN "cancel"
    ELSE IF IsCommand(text, "start") THEN "start"
    ELSE ""

\* the conversation put past the TAN question when the duration is accepted
Returned_skipping_tan(new_state) ==
    conversations' = [c \in {Chat} |-> IF new_state = ASK_TAN THEN ASK_TAEG
                                       ELSE new_state]

\* A handler returned new_state: the ConversationHandler stores it.
Returned(new_state) == conversations' = [c \in {Chat} |-> new_state]

\* A handler raised: the conversation stays where it was.
Raised == UNCHANGED conversations

\* The update just handled: its text, the conversations as it arrived (was),
\* the handler that ran ("" if none) and the exception it raised ("" if none).
Handled(text, handler, exc) ==
    update' = [text |-> text, was |-> conversations, handler |-> handler,
               raised |-> exc]

\* ------------------------------------------------------------ builder calls
\* The document builder(arg) returns when the files exist and the layout
\* takes npages pages.
Document(builder, arg, files, npages) ==
    IF builder = "build_contratto" THEN build_contratto(arg, files, npages)
    ELSE IF builder = "build_lettera_carta" THEN build_lettera_carta(arg, files, npages)
    ELSE build_lettera_garanzia(arg["name"], files, npages)

\* The outcomes of one call builder(arg): doc.build raises (a render fault,
\* ok = FALSE), or the document is built from the asset files that exist, on
\* as many pages as the layout of its text takes.
Builds(builder, arg) ==
    { [builder |-> builder, arg |-> arg, files |-> {}, ok |-> FALSE, doc |-> NoDoc] }
    \cup { [builder |-> builder, arg |-> arg, files |-> files, ok |-> TRUE,
            doc |-> Document(builder, arg, files, npages)] :
          files \in SUBSET AssetPaths(builder), npages \in 1..MaxPages }

\* --------------------------------------------------------------- handlers
\* start without the clear(): the fields survive the reset
start_user_data_kept(d) == d

\* context.user_data.clear() of start
start_user_data(d) == EmptyDict

\* start: clears the fields, sends the keyboard prompt, returns CHOOSING_DOC.
\* sent is what the calling handler has already sent.
start_from(d, sent) ==
    /\ user_data' = start_user_data(d)
    /\ replies' = Append(sent, WelcomeMsg)
    /\ Returned(CHOOSING_DOC)
    /\ fresh' = {}

start(text) ==
    /\ HandlerFor(text) = "start"
    /\ start_from(user_data, << >>)
    /\ builds' = << >>
    /\ Handled(text, "start", "")

cancel(text) ==
    /\ HandlerFor(text) = "cancel"
    /\ start_from(user_data, << TextMsg("Operazione annullata.") >>)
    /\ builds' = << >>
    /\ Handled(text, "cancel", "")

choose_doc(text) ==
    /\ HandlerFor(text) = "choose_doc"
    /\ user_data' = Put(user_data, "doc_type", text)
    /\ fresh' = fresh \cup {"doc_type"}
    /\ replies' = << TextMsg("Inserisci nome e cognome del cliente:") >>
    /\ Returned(ASK_NAME)
    /\ builds' = << >>
    /\ Handled(text, "choose_doc", "")

\* the document is sent without looking at the outcome of the build
deliver_unchecked(b, filename, sendfails) ==
    IF sendfails THEN << SendErrorMsg >> ELSE << DocumentMsg(filename, b.doc) >>

\* The try/except around the builder and reply_document: what is sent for a
\* build b under the name filename; sendfails is reply_document raising.
deliver(b, filename, sendfails) ==
    IF ~b.ok THEN << BuildErrorMsg >>
    ELSE IF sendfails THEN << SendErrorMsg >>
    ELSE << DocumentMsg(filename, b.doc) >>

\* the shortcut taken for the wrong document kind
is_garanzia_carta(dt) == dt = "/carta"

\* dt == '/garanzia' of ask_name
is_garanzia(dt) == dt = "/garanzia"

ask_name(text) ==
    /\ HandlerFor(text) = "ask_name"
    /\ LET name == Strip(text)
           dt == user_data["doc_type"]
       IN IF is_garanzia(dt)
          THEN \E b \in Builds("build_lettera_garanzia", [k \in {"name"} |-> name]),
                  sendfails \in BOOLEAN :
                 /\ builds' = << b >>
                 /\ start_from(user_data,
                               deliver(b, "Garanzia_" \o name \o ".pdf", sendfails))
          ELSE /\ user_data' = Put(user_data, "name", name)
               /\ fresh' = fresh \cup {"name"}
               /\ replies' = << TextMsg("Inserisci importo (€):") >>
               /\ Returned(ASK_AMOUNT)
               /\ builds' = << >>
    /\ Handled(text, "ask_name", "")

ask_amount(text) ==
    /\ HandlerFor(text) = "ask_amount"
    /\ LET amt == ParseFloat(Replace(Replace(text, "€", ""), ",", "."))
       IN IF ~amt.ok
          THEN /\ replies' = << TextMsg("Importo non valido, riprova:") >>
               /\ Returned(ASK_AMOUNT)
               /\ UNCHANGED <<user_data, fresh>>
          ELSE /\ user_data' = Put(user_data, "amount", amt.val)
               /\ fresh' = fresh \cup {"amount"}
               /\ replies' = << TextMsg("Inserisci durata (mesi):") >>
               /\ Returned(ASK_DURATION)
    /\ builds' = << >>
    /\ Handled(text, "ask_amount", "")

ask_duration(text) ==
    /\ HandlerFor(text) = "ask_duration"
    /\ LET mn == ParseInt(text)
       IN IF ~mn.ok
          THEN /\ replies' = << TextMsg("Durata non valida, riprova:") >>
               /\ Returned(ASK_DURATION)
               /\ UNCHANGED <<user_data, fresh>>
          ELSE /\ user_data' = Put(user_data, "duration", mn.val)
               /\ fresh' = fresh \cup {"duration"}
               /\ replies' = << TextMsg("Inserisci TAN (%), enter per 7.86%:") >>
               /\ Returned(ASK_TAN)
    /\ builds' = << >>
    /\ Handled(text, "ask_duration", "")

\* float(txt.replace(',','.')) if txt else default, of ask_tan and ask_taeg
rate_value(txt, default) ==
    IF txt = "" THEN [ok |-> TRUE, val |-> default]
    ELSE ParseFloat(Replace(txt, ",", "."))

ask_tan(text) ==
    /\ HandlerFor(text) = "ask_tan"
    /\ LET tan == rate_value(Strip(text), DEFAULT_TAN)
       IN IF ~tan.ok
          THEN /\ Raised
               /\ replies' = << >>
               /\ Handled(text, "ask_tan", "ValueError")
               /\ UNCHANGED <<user_data, fresh>>
          ELSE /\ user_data' = Put(user_data, "tan", tan.val)
               /\ fresh' = fresh \cup {"tan"}
               /\ replies' = << TextMsg("Inserisci TAEG (%), enter per 8.3%:") >>
               /\ Returned(ASK_TAEG)
               /\ Handled(text, "ask_tan", "")
    /\ builds' = << >>

\* if dt == '/contratto' ... else ... of ask_taeg: the builder called
builder_for(dt) ==
    IF dt = "/contratto" THEN "build_contratto" ELSE "build_lettera_carta"

\* the two prefixes swapped
filename_for_swapped(dt, name) ==
    IF dt = "/contratto" THEN "Carta_" \o name \o ".pdf"
    ELSE "Contratto_" \o name \o ".pdf"

\* ... and the file name the document is sent under
filename_for(dt, name) ==
    IF dt = "/contratto" THEN "Contratto_" \o name \o ".pdf"
    ELSE "Carta_" \o name \o ".pdf"

\* the instalment computed at the TAEG instead of the TAN
payment_of_taeg(d) == monthly_payment(d["amount"], d["duration"], d["taeg"])

\* monthly_payment(d['amount'], d['duration'], d['tan']) of ask_taeg
payment_of(d) == monthly_payment(d["amount"], d["duration"], d["tan"])

ask_taeg(text) ==
    /\ HandlerFor(text) = "ask_taeg"
    /\ LET taeg == rate_value(Strip(text), DEFAULT_TAEG)
           d1 == Put(user_data, "taeg", taeg.val)
           pay == payment_of(d1)
           d == Put(d1, "payment", pay.val)
           dt == d["doc_type"]
       IN IF ~taeg.ok
          THEN /\ Raised
               /\ replies' = << >>
               /\ builds' = << >>
               /\ Handled(text, "ask_taeg", "ValueError")
               /\ UNCHANGED <<user_data, fresh>>
          ELSE IF ~pay.ok
          THEN /\ Raised
               /\ user_data' = d1
               /\ fresh' = fresh \cup {"taeg"}
               /\ replies' = << >>
               /\ builds' = << >>
               /\ Handled(text, "ask_taeg", "ZeroDivisionError")
          ELSE \E b \in Builds(builder_for(dt), d), sendfails \in BOOLEAN :
                 /\ builds' = << b >>
                 /\ start_from(d, deliver(b, filename_for(dt, d["name"]), sendfails))
                 /\ Handled(text, "ask_taeg", "")

\* No handler matches: the ConversationHandler drops the update.
dropped(text) ==
    /\ HandlerFor(text) = ""
    /\ replies' = << >>
    /\ builds' = << >>
    /\ Handled(text, "", "")
    /\ UNCHANGED <<conversations, user_data, fresh>>

\* ----------------------------------------------------------- specification
Init ==
    /\ conversations = [c \in {} |-> CHOOSING_DOC]
    /\ user_data = EmptyDict
    /\ replies = << >>
    /\ builds = << >>
    /\ update = [text |-> "", was |-> conversations, handler |-> "", raised |-> ""]
    /\ fresh = {}

Next ==
    \E text \in Texts :
        \/ start(text)
        \/ cancel(text)
        \/ choose_doc(text)
        \/ ask_name(text)
        \/ ask_amount(text)
        \/ ask_duration(text)
        \/ ask_tan(text)
        \/ ask_taeg(text)
        \/ dropped(text)

Spec == Init /\ [][Next]_vars

\* ================================================================== claims
Fields == {"doc_type", "name", "amount", "duration", "tan", "taeg", "payment"}

\* The state the conversation was in when the last update arrived.
Was(st) == Chat \in DOMAIN update.was /\ update.was[Chat] = st

Has(k) == k \in DOMAIN user_data

\* ---------------------------------------------------------------------- C1
\* In every reachable state: right after the text /start or /cancel arrived
\* in a conversation (in whichever of its states) start resp. cancel has run
\* and the conversation is in CHOOSING_DOC with no field stored; whenever the
\* conversation is in CHOOSING_DOC no field is stored; and every stored field
\* was written since CHOOSING_DOC was last entered.
C1_ResetState ==
    /\ update.text \in {"/start", "/cancel"} /\ DOMAIN update.was # {}
         => /\ update.handler = SubSeq(update.text, 2, Len(update.text))
            /\ update.raised = ""
    /\ update.handler \in {"start", "cancel"}
         => HasConversation /\ State = CHOOSING_DOC /\ user_data = EmptyDict
    /\ HasConversation /\ State = CHOOSING_DOC => DOMAIN user_data = {}
    /\ DOMAIN user_data \subseteq fresh
    /\ fresh \subseteq Fields

\* In every step that calls a builder, each field given to the builder was
\* written since CHOOSING_DOC was last entered (and still has that value) or
\* is written by this very update (taeg and payment, the name of a guarantee
\* letter).
C1_FreshFields ==
    \A i \in 1..Len(builds') :
        \A k \in DOMAIN builds'[i].arg :
            \/ k \in fresh /\ Has(k) /\ builds'[i].arg[k] = user_data[k]
            \/ k \in {"taeg", "payment"} /\ update'.handler = "ask_taeg"
            \/ k = "name" /\ update'.handler = "ask_name"

\* C1: cancel and start reset to ChoosingDocument with the field set empty,
\* from every state; in ChoosingDocument no field is present; a completed
\* flow only uses fields entered after the last entry into ChoosingDocument.
C1_TotalReset == [](C1_ResetState) /\ [][C1_FreshFields]_vars

\* A cancel that arrived in ASK_TAEG, with every collected field stored.
C1_Witness ==
    /\ update.handler = "cancel"
    /\ Was(ASK_TAEG)
    /\ State = CHOOSING_DOC
    /\ user_data = EmptyDict

\* ---------------------------------------------------------------------- C2
\* While the chosen kind is the guarantee letter the conversation is in
\* ASK_NAME, never in a later state.
C2_OnlyAskName ==
    Has("doc_type") /\ user_data["doc_type"] = "/garanzia"
        => HasConversation /\ State = ASK_NAME

\* The name input of a guarantee letter calls build_lettera_garanzia with the
\* trimmed name, once, and returns the conversation to CHOOSING_DOC.
C2_RendersAtOnce ==
    update'.handler = "ask_name" /\ Has("doc_type")
      /\ user_data["doc_type"] = "/garanzia"
        => /\ conversations'[Chat] = CHOOSING_DOC
           /\ Len(builds') = 1
           /\ builds'[1].builder = "build_lettera_garanzia"
           /\ builds'[1].arg["name"] = Strip(update'.text)

\* C2: with GuaranteeLetter chosen, the first name input renders the letter
\* at once and returns to ChoosingDocument; AskAmount, AskDuration, AskTan and
\* AskTaeg are never entered in between.
C2_GuaranteeShortcut == [](C2_OnlyAskName) /\ [][C2_RendersAtOnce]_vars

\* A guarantee letter was built and delivered on a name input.
C2_Witness ==
    /\ update.handler = "ask_name"
    /\ Was(ASK_NAME)
    /\ Len(builds) = 1
    /\ builds[1].builder = "build_lettera_garanzia"
    /\ builds[1].ok
    /\ replies[1].kind = "document"
    /\ State = CHOOSING_DOC
\* ---------------------------------------------------------------------- C3
\* The input formats the claim calls invalid: an amount that is no decimal
\* (after the currency symbol is dropped and the comma read as a point), a
\* duration that is no integer, a rate that is not empty and no decimal.
NotAccepted(handler, text) ==
    \/ handler = "ask_amount"
         /\ ~ParseFloat(Replace(Replace(text, "€", ""), ",", ".")).ok
    \/ handler = "ask_duration" /\ ~ParseInt(text).ok
    \/ handler \in {"ask_tan", "ask_taeg"}
         /\ Strip(text) # ""
         /\ ~ParseFloat(Replace(Strip(text), ",", ".")).ok

\* A rejected input leaves the state and the fields as they were and sends
\* exactly one text to the user.
C3_Reprompt ==
    NotAccepted(update'.handler, update'.text)
        => /\ conversations' = conversations
           /\ user_data' = user_data
           /\ Len(replies') = 1
           /\ replies'[1].kind = "text"

\* C3: in AskAmount, AskDuration, AskTan and AskTaeg an input in the wrong
\* format leaves state and fields unchanged and sends exactly one re-prompt.
C3_ValidationReprompts == [][C3_Reprompt]_vars

\* ---------------------------------------------------------------------- C4
\* C4: in every reachable state a stored duration is an integer >= 1 and a
\* stored amount is >= 0, so monthly_payment never gets months < 1 or a
\* negative amount.
C4_DomainChecked ==
    /\ Has("duration") => user_data["duration"] >= 1
    /\ Has("amount") => user_data["amount"] >= 0

\* ---------------------------------------------------------------------- C5
\* A decimal or empty input in ASK_TAEG calls a builder and sends something,
\* and the conversation is in CHOOSING_DOC afterwards.
C5_Completes ==
    update'.handler = "ask_taeg" /\ ~NotAccepted("ask_taeg", update'.text)
        => /\ conversations'[Chat] = CHOOSING_DOC
           /\ Len(builds') = 1
           /\ Len(replies') >= 1

\* C5: every flow that reaches AskTaeg completes: a decimal or empty input
\* computes the payment, attempts the render and leaves the session in
\* ChoosingDocument.
C5_TaegCompletes == [][C5_Completes]_vars

\* ---------------------------------------------------------------------- C6
\* C6: when a builder fails with a render fault, no document is handed to
\* the delivery, the user gets the generic failure message, the session is in
\* ChoosingDocument with all fields cleared, and the render is not retried
\* (the builder was called once).
C6_RenderFault ==
    \A i \in 1..Len(builds) :
        ~builds[i].ok
            => /\ \A j \in 1..Len(replies) : replies[j].kind # "document"
               /\ \E j \in 1..Len(replies) : replies[j] = BuildErrorMsg
               /\ HasConversation /\ State = CHOOSING_DOC
               /\ user_data = EmptyDict
               /\ Len(builds) = 1

\* build_contratto failed while the TAEG input was handled.
C6_Witness ==
    /\ update.handler = "ask_taeg"
    /\ Len(builds) = 1
    /\ builds[1].builder = "build_contratto"
    /\ ~builds[1].ok

\* ---------------------------------------------------------------------- C7
\* s has sub as a substring
Contains(s, sub) ==
    \E i \in 1..(Len(s) - Len(sub) + 1) : SubSeq(s, i, i + Len(sub) - 1) = sub

\* The builder and the file name prefix of a document kind.
KindBuilder(dt) ==
    CASE dt = "/contratto" -> "build_contratto"
      [] dt = "/garanzia" -> "build_lettera_garanzia"
      [] dt = "/carta" -> "build_lettera_carta"

KindPrefix(dt) ==
    CASE dt = "/contratto" -> "Contratto"
      [] dt = "/garanzia" -> "Garanzia"
      [] dt = "/carta" -> "Carta"

\* The payment line of a document built from arg shows the payment pay.
ShowsPayment(b, pay) ==
    IF b.builder = "build_contratto"
    THEN \E n \in 1..Len(b.doc.elems) :
            b.doc.elems[n].text = "- Rata mensile: " \o fmt_num(pay, TRUE)
    ELSE \E n \in 1..Len(b.doc.elems) :
            Contains(b.doc.elems[n].text, "mensile sara pari a " \o money(pay) \o ".")

\* A step that builds a document builds it from what was collected.
C7_BuiltAsCollected ==
    \A i \in 1..Len(builds') :
        LET b == builds'[i]
            dt == user_data["doc_type"]
            name == IF dt = "/garanzia" THEN Strip(update'.text)
                    ELSE user_data["name"]
        IN b.ok =>
            /\ b.builder = KindBuilder(dt)
            /\ b.arg["name"] = name
            /\ \A j \in 1..Len(replies') :
                 replies'[j].kind = "document"
                   => /\ replies'[j].text = KindPrefix(dt) \o "_" \o name \o ".pdf"
                      /\ replies'[j].doc = b.doc
            /\ dt # "/garanzia" =>
                 /\ \A k \in {"amount", "duration", "tan"} : b.arg[k] = user_data[k]
                 /\ Strip(update'.text) = "" => b.arg["taeg"] = 830
                 /\ b.arg["payment"]
                      = monthly_payment(user_data["amount"], user_data["duration"],
                                        user_data["tan"]).val
                 /\ ShowsPayment(b, b.arg["payment"])

\* The name stored is the trimmed input; an empty TAN input stores 7.86.
C7_Collected ==
    /\ update'.handler = "ask_name" /\ "name" \in DOMAIN user_data'
         => user_data'["name"] = Strip(update'.text)
    /\ update'.handler = "ask_tan" /\ Strip(update'.text) = ""
         => "tan" \in DOMAIN user_data' /\ user_data'["tan"] = 786

\* C7: for a completed flow the document built is of the kind chosen, its
\* file name is the kind prefix, "_", the client name and ".pdf", an empty
\* TAN input yields 7.86 and an empty TAEG input 8.30, and the payment shown
\* is monthly_payment of the collected amount, duration and TAN.
C7_DocumentMatches == [][C7_BuiltAsCollected /\ C7_Collected]_vars

\* The card letter for Mario Rossi, 5000.25 over 2 months, both rates left
\* empty: sent as Carta_Mario Rossi.pdf with the payment 2524.72.
C7_Witness ==
    /\ Len(builds) = 1 /\ builds[1].ok
    /\ builds[1].builder = "build_lettera_carta"
    /\ builds[1].arg["amount"] = 500025 /\ builds[1].arg["duration"] = 2
    /\ builds[1].arg["tan"] = 786 /\ builds[1].arg["taeg"] = 830
    /\ builds[1].arg["payment"] = 252472
    /\ replies[1].kind = "document"
    /\ replies[1].text = "Carta_Mario Rossi.pdf"

\* ---------------------------------------------------------------------- C8
\* C8: a page decoration is drawn on every page: a document that has the
\* border on some page has it on each of its pages.
C8_BorderOnEveryPage ==
    \A i \in 1..Len(builds) :
        LET pages == builds[i].doc.pages
        IN builds[i].ok /\ (\E n \in 1..Len(pages) : "border" \in pages[n])
             => \A n \in 1..Len(pages) : "border" \in pages[n]

\* ---------------------------------------------------------------------- C9
\* An element that is no image: a text element, a list or a signature line.
\* The spacer a builder appends together with an image counts as part of the
\* image element, so spacers are left out of the comparison too.
IsTextElement(e) == e.type \notin {"Image", "Spacer"}

\* The elements of a document without its images: the image elements are
\* dropped and a signature line loses its overlay image.
WithoutImages(elems) ==
    LET texts == SelectSeq(elems, IsTextElement)
    IN [n \in 1..Len(texts) |->
          IF texts[n].type = "SignatureLine"
          THEN [texts[n] EXCEPT !.extra = ""] ELSE texts[n]]

\* C9: with an optional asset missing, the elements of a document are those
\* of the document built with every asset present, minus the image: every
\* text element, the signer label included, is still there.
C9_AssetIndependence ==
    \A i \in 1..Len(builds) :
        LET b == builds[i]
        IN b.ok =>
             WithoutImages(b.doc.elems)
               = WithoutImages(Document(b.builder, b.arg, AssetPaths(b.builder),
                                        Len(b.doc.pages)).elems)

\* --------------------------------------------------------------------- C10
\* C10: at a zero annual rate the payment is amount / months rounded to two
\* decimals half-up, for every amount and every months >= 1, exact ties at
\* the third decimal included.
C10_ZeroRateHalfUp ==
    \A i \in 1..Len(builds) :
        LET arg == builds[i].arg
        IN builds[i].ok /\ "payment" \in DOMAIN arg
             /\ arg["tan"] = 0 /\ arg["duration"] >= 1
             => arg["payment"]
                  = Sign(arg["amount"])
                      * RoundQuotHalfUp(Abs(arg["amount"]), 1, arg["duration"])

\* --------------------------------------------------------------------- C11
\* The field an accepted input writes in each of the five collecting states.
StepField(st) ==
    CASE st = CHOOSING_DOC -> "doc_type"
      [] st = ASK_NAME -> "name"
      [] st = ASK_AMOUNT -> "amount"
      [] st = ASK_DURATION -> "duration"
      [] st = ASK_TAN -> "tan"

StepFields == {StepField(st) : st \in CHOOSING_DOC..ASK_TAN}

\* A contract or a card letter is being built.
IsFullFlowBuild(b) == b.builder \in {"build_contratto", "build_lettera_carta"}

\* In a conversation in state st, the inputs accepted since CHOOSING_DOC was
\* last entered are exactly those of the states before st.
C11_InOrder ==
    HasConversation
        => fresh \cap StepFields = {StepField(st) : st \in CHOOSING_DOC..(State - 1)}

\* One update: the conversation stays, advances by one state or goes to
\* CHOOSING_DOC; it advances exactly by accepting the input of its state, not
\* accepted before in this flow; staying accepts nothing; and a contract or a
\* card letter is built only by ask_taeg in ASK_TAEG with the five inputs
\* accepted.
C11_Step ==
    /\ ~HasConversation
         => builds' = << >> /\ conversations' \in {conversations, [c \in {Chat} |-> CHOOSING_DOC]}
    /\ HasConversation
         => LET s == State
                t == conversations'[Chat]
            IN /\ t \in {s, s + 1, CHOOSING_DOC}
               /\ t = s + 1
                    => /\ s \in CHOOSING_DOC..ASK_TAN
                       /\ StepField(s) \notin fresh
                       /\ fresh' = fresh \cup {StepField(s)}
                       /\ update'.raised = ""
               /\ t = s /\ s \in CHOOSING_DOC..ASK_TAN => fresh' = fresh
               /\ \A i \in 1..Len(builds') :
                     IsFullFlowBuild(builds'[i])
                         => /\ s = ASK_TAEG
                            /\ update'.handler = "ask_taeg"
                            /\ StepFields \subseteq fresh
                            /\ t = CHOOSING_DOC

\* C11: a Contract or CardLetter is rendered only in AskTaeg, and only after
\* the session has, since its last entry into ChoosingDocument, accepted
\* exactly one input in each of ChoosingDocument, AskName, AskAmount,
\* AskDuration and AskTan in that order; no state is skipped or visited out
\* of order and a successful input moves backwards only to ChoosingDocument.
C11_LinearOrder == [](C11_InOrder) /\ [][C11_Step]_vars

\* A contract was built and sent on the TAEG input of a conversation that
\* was in ASK_TAEG.
C11_Witness ==
    /\ Was(ASK_TAEG) /\ update.handler = "ask_taeg"
    /\ Len(builds) = 1 /\ builds[1].builder = "build_contratto" /\ builds[1].ok
    /\ StepFields \subseteq DOMAIN builds[1].arg
    /\ replies[1].kind = "document"
    /\ State = CHOOSING_DOC

\* --------------------------------------------------------------------- C12
PaymentInputs == {"amount", "duration", "tan"}

\* Wherever the payment is present (in the stored fields, or in the fields a
\* builder is handed), amount, duration and tan are present too, and the
\* payment is the instalment of exactly these three.
C12_FromThree ==
    /\ Has("payment")
         => /\ PaymentInputs \subseteq DOMAIN user_data
            /\ user_data["payment"]
                 = monthly_payment(user_data["amount"], user_data["duration"],
                                   user_data["tan"]).val
    /\ \A i \in 1..Len(builds) :
          LET d == builds[i].arg
          IN "payment" \in DOMAIN d
               => /\ PaymentInputs \subseteq DOMAIN d
                  /\ "taeg" \in DOMAIN d
                  /\ d["payment"]
                       = monthly_payment(d["amount"], d["duration"], d["tan"]).val

\* One update: the payment is assigned only where it was absent, by the
\* handler that ends the flow, and only ask_taeg assigns it.
C12_Once ==
    /\ \A i \in 1..Len(builds') :
          "payment" \in DOMAIN builds'[i].arg
              => /\ ~Has("payment")
                 /\ "payment" \notin fresh
                 /\ update'.handler = "ask_taeg"
                 /\ Len(builds') = 1
                 /\ conversations'[Chat] = CHOOSING_DOC
                 /\ fresh' = {}
    /\ "payment" \in DOMAIN user_data'
         => UNCHANGED user_data \/ (~Has("payment") /\ "payment" \notin fresh)

\* C12: in every reachable state the derived field payment is present only if
\* amount, duration and tan are all present; within one flow (between two
\* entries into ChoosingDocument) payment is assigned at most once; and its
\* value is a function of amount, duration and tan alone, not of taeg.
C12_PaymentDerived == [](C12_FromThree) /\ [][C12_Once]_vars

\* A contract for 5000.25 over 2 months, TAN left empty and TAEG given as 2:
\* the payment is 2524.72, that of the card letter with both rates left empty.
C12_Witness ==
    /\ update.handler = "ask_taeg" /\ update.text = "2"
    /\ Len(builds) = 1 /\ builds[1].builder = "build_contratto"
    /\ builds[1].arg["amount"] = 500025 /\ builds[1].arg["duration"] = 2
    /\ builds[1].arg["tan"] = DEFAULT_TAN /\ builds[1].arg["taeg"] = 200
    /\ builds[1].arg["payment"] = 252472

\* --------------------------------------------------------------------- C13
\* The text prompts among the messages sent for the last update.
TextPrompts(sent) == SelectSeq(sent, LAMBDA m : m.kind = "text")

\* C13: every input processed, in every state and including the cancel and
\* start interrupts and the render-failure path, produces the next state
\* together with at most one outbound text prompt (a delivered document is
\* not counted as a text prompt).
C13_AtMostOnePrompt ==
    /\ Len(TextPrompts(replies)) <= 1
    /\ update.handler # "" /\ update.raised = "" => HasConversation

====
